---- MODULE Spec2Model ----
(***************************************************************************)
(* Model of package bolt (src/bolt.go): helper functions that wrap the     *)
(* read-only (db.View) and read-write (db.Update) transactions of an       *)
(* embedded key-value engine.                                              *)
(*                                                                         *)
(* The wrapper functions are translated line by line.  The engine calls    *)
(* they make (db.Update, db.View, tx.Bucket, Bucket.Get, Bucket.Put,       *)
(* Bucket.Cursor, Cursor.First/Seek/Next) are modelled by what the engine  *)
(* does at the call site: one writer lock, a private working root for the  *)
(* writer installed at commit, a root captured at begin for each reader,   *)
(* and the lock on the memory map of the data file: every read transaction *)
(* holds it shared from begin to end, a commit that has to grow the file   *)
(* takes it exclusively to remap.  Disk faults of the engine are outside   *)
(* the model.                                                              *)
(*                                                                         *)
(* Byte slices are sequences of small naturals; a slice that may be nil is *)
(* a record [nil, b], as Go distinguishes nil from a zero-length slice.    *)
(***************************************************************************)
EXTENDS Naturals, Sequences, FiniteSets, TLC

VARIABLES
  db,       \* the data file: the committed meta of the engine (txid; root: bucket
            \* name -> (key -> value)) and the lock on the file (flock, by)
  rwlock,   \* holder of the engine's writer mutex (a process) or NoProc
  wtx,      \* the open read-write transaction: [root, writes, made] or NoTx
  proc,     \* per goroutine: position in the wrapper function it runs and its locals
  expect    \* history: the initial content overlaid with the writes that every
            \* committed transaction asked for, in commit order

vars == <<db, rwlock, wtx, proc, expect>>

----------------------------------------------------------------------------
(* Bounds *)

\* write transactions that may be started in one behaviour
MaxGen == 2
\* engine calls a user callback of PutWithDB/PutWithBucket/GetWithDB/... makes
MaxCbSteps == 2

\* two goroutines call into the package
Procs == {1, 2}
NoProc == 0

----------------------------------------------------------------------------
(* Byte slices *)

NilB == [nil |-> TRUE, b |-> <<>>]
B(s) == [nil |-> FALSE, b |-> s]

\* bytes.HasPrefix(s, prefix)
HasPrefix(s, prefix) ==
  /\ Len(s) >= Len(prefix)
  /\ \A i \in 1..Len(prefix) : s[i] = prefix[i]

\* bytes.Compare(x, y) < 0: lexicographic byte order, a proper prefix first
Less(x, y) ==
  \E i \in 1..(Len(y)) :
    /\ i <= Len(x) + 1
    /\ \A j \in 1..(i - 1) : x[j] = y[j]
    /\ (i = Len(x) + 1 \/ x[i] < y[i])

\* the least key of a non-empty set of keys
MinKey(S) == CHOOSE k \in S : \A j \in S : j = k \/ Less(k, j)

----------------------------------------------------------------------------
(* Errors *)

ErrNone == "nil"
ErrInvalidArgument == "ErrInvalidArgument"
ErrBucketNotFound == "ErrBucketNotFound"
ErrKeyNotFound == "ErrKeyNotFound"
\* an error of the caller's own callback
ErrFun == "ErrFun"
\* engine errors of Bucket.Put
ErrTxNotWritable == "ErrTxNotWritable"
ErrKeyRequired == "ErrKeyRequired"
\* engine errors of bbolt.Open (the file cannot be opened or is no store) and of
\* a commit that cannot write the file
ErrOpen == "ErrOpen"
ErrCommit == "ErrCommit"

----------------------------------------------------------------------------
(* Engine: buckets, point access, cursor *)

EmptyBucket == [k \in {} |-> <<>>]
NoWrites == [w \in {} |-> <<>>]
NoTx == [open |-> FALSE, root |-> <<>>, writes |-> NoWrites, made |-> {}]
NoSnap == [open |-> FALSE, txid |-> 0, root |-> <<>>]
NoWant == [txid |-> 0, root |-> <<>>]

\* content `root` after the writes `writes` (<<bucket, key>> -> value), whatever
\* the engine did with them
Overlay(root, writes) ==
  [b \in DOMAIN root |->
     [k \in (DOMAIN root[b]) \cup {w[2] : w \in {x \in DOMAIN writes : x[1] = b}} |->
        IF <<b, k>> \in DOMAIN writes THEN writes[<<b, k>>] ELSE root[b][k]]]

\* content `root` with the buckets `names`, those it lacks being empty
WithBuckets(root, names) ==
  [b \in (DOMAIN root) \cup names |-> IF b \in DOMAIN root THEN root[b] ELSE EmptyBucket]

\* what the transaction tx asked for, applied to the content `root`
Asked(root, tx) == Overlay(WithBuckets(root, tx.made), tx.writes)

\* tx.CreateBucket(name) on a name that is taken, were it to start the bucket anew
CreateBucketAnew(root, name) ==
  [b \in (DOMAIN root) \cup {name} |-> IF b = name THEN EmptyBucket ELSE root[b]]

\* tx.CreateBucketIfNotExists(name), name not empty, in a read-write
\* transaction: the bucket as it is, or a new empty one
CreateBucketIfNotExists(root, name) ==
  IF name \in DOMAIN root THEN root
  ELSE [b \in (DOMAIN root) \cup {name} |-> IF b = name THEN EmptyBucket ELSE root[b]]

\* tx.Bucket(name) # nil
HasBucket(root, name) == name \in DOMAIN root

\* Bucket.Get that returns an empty slice, not nil, for an absent key
BucketGetEmpty(bkt, key) ==
  IF key \in DOMAIN bkt THEN B(bkt[key]) ELSE B(<<>>)

\* Bucket.Get(key): nil when the key is absent, else the stored bytes
BucketGet(bkt, key) ==
  IF key \in DOMAIN bkt THEN B(bkt[key]) ELSE NilB

\* Bucket.Put that keeps the old value of a key that is already stored
BucketPutInsertOnly(writable, bkt, key, value) ==
  IF ~writable THEN [err |-> ErrTxNotWritable, bkt |-> bkt]
  ELSE IF Len(key) = 0 THEN [err |-> ErrKeyRequired, bkt |-> bkt]
  ELSE [err |-> ErrNone,
        bkt |-> [k \in (DOMAIN bkt) \cup {key} |-> IF k \in DOMAIN bkt THEN bkt[k] ELSE value]]

\* Bucket.Put(key, value): [err, bkt]. Insert or replace; only the key is checked.
BucketPut(writable, bkt, key, value) ==
  IF ~writable THEN [err |-> ErrTxNotWritable, bkt |-> bkt]
  ELSE IF Len(key) = 0 THEN [err |-> ErrKeyRequired, bkt |-> bkt]
  ELSE [err |-> ErrNone,
        bkt |-> [k \in (DOMAIN bkt) \cup {key} |-> IF k = key THEN value ELSE bkt[k]]]

\* Cursor.First(): the least key, nil on an empty bucket
CursorFirst(bkt) ==
  IF DOMAIN bkt = {} THEN NilB ELSE B(MinKey(DOMAIN bkt))

\* Cursor.Seek that starts after the key sought
CursorSeekAfter(bkt, seek) ==
  LET S == {k \in DOMAIN bkt : Less(seek, k)}
  IN IF S = {} THEN NilB ELSE B(MinKey(S))

\* Cursor.Seek(seek): the least key >= seek, nil when no key follows
CursorSeek(bkt, seek) ==
  LET S == {k \in DOMAIN bkt : k = seek \/ Less(seek, k)}
  IN IF S = {} THEN NilB ELSE B(MinKey(S))

\* Cursor.Next that steps over a key
CursorNextSkips(bkt, k) ==
  LET S == {j \in DOMAIN bkt : Less(k, j)}
      T == S \ {MinKey(S)}
  IN IF S = {} \/ T = {} THEN NilB ELSE B(MinKey(T))

\* Cursor.Next() from key k: the least key > k, nil at the end. A Put that
\* replaced the value of the key under the cursor leaves the keys and their
\* order as they are, so the cursor goes on from k.
CursorNext(bkt, k) ==
  LET S == {j \in DOMAIN bkt : Less(k, j)}
  IN IF S = {} THEN NilB ELSE B(MinKey(S))

----------------------------------------------------------------------------
(* Calls: the arguments of one call of a function of the package *)

Op(fn, dbNil, bucket, key, value, prefix, funNil) ==
  [fn |-> fn, dbNil |-> dbNil, bucket |-> bucket, key |-> key,
   value |-> value, prefix |-> prefix, funNil |-> funNil, path |-> <<>>, names |-> <<>>]

\* a call Open(path, names...)
OpenOp(path, names) ==
  [fn |-> "Open", dbNil |-> FALSE, bucket |-> <<>>, key |-> <<>>,
   value |-> <<>>, prefix |-> <<>>, funNil |-> FALSE, path |-> path, names |-> names]

NoOp == Op("", FALSE, <<>>, <<>>, <<>>, <<>>, FALSE)

ReadFns == {"Get", "GetWithValue", "GetWithBucket", "GetWithDB", "EachKV",
            "EachKVPrefix", "EachBucket", "CountKV", "CountKVPrefix"}
WriteFns == {"Put", "PutWithValue", "PutWithValuePrefix", "PutWithBucket", "PutWithDB"}

\* db.Update is the transaction a write function (and Open, line 26) opens,
\* db.View the one a read function opens
IsWrite(fn) == fn \in WriteFns \cup {"Open"}

\* the functions that take a user callback which is handed the bucket or the transaction
CallbackFns == {"GetWithBucket", "GetWithDB", "EachBucket", "PutWithBucket", "PutWithDB"}

\* The argument checks at the head of each function
OpenInvalid(o) == Len(o.path) = 0
GetInvalid(o) == o.dbNil \/ Len(o.bucket) = 0 \/ Len(o.key) = 0
PutInvalidNoValue(o) == o.dbNil \/ Len(o.bucket) = 0 \/ Len(o.key) = 0
PutInvalid(o) == o.dbNil \/ Len(o.bucket) = 0 \/ Len(o.key) = 0 \/ Len(o.value) = 0
GetWithValueInvalid(o) == o.dbNil \/ Len(o.bucket) = 0 \/ Len(o.key) = 0 \/ o.funNil
PutWithValueInvalid(o) == o.dbNil \/ Len(o.bucket) = 0 \/ Len(o.key) = 0 \/ o.funNil
PutWithValuePrefixInvalid(o) == o.dbNil \/ Len(o.bucket) = 0 \/ Len(o.prefix) = 0 \/ o.funNil
GetWithBucketInvalid(o) == o.dbNil \/ Len(o.bucket) = 0 \/ o.funNil
PutWithBucketInvalid(o) == o.dbNil \/ Len(o.bucket) = 0 \/ o.funNil
GetWithDBInvalid(o) == o.dbNil \/ o.funNil
PutWithDBInvalid(o) == o.dbNil \/ o.funNil
EachKVInvalid(o) == o.dbNil \/ Len(o.bucket) = 0 \/ o.funNil
EachKVPrefixInvalid(o) == o.dbNil \/ Len(o.bucket) = 0 \/ Len(o.prefix) = 0 \/ o.funNil
EachBucketInvalid(o) == o.dbNil \/ Len(o.bucket) = 0 \/ o.funNil
CountKVInvalid(o) == o.dbNil \/ Len(o.bucket) = 0
CountKVPrefixInvalid(o) == o.dbNil \/ Len(o.bucket) = 0 \/ Len(o.prefix) = 0

Invalid(o) ==
  CASE o.fn = "Open" -> OpenInvalid(o)
    [] o.fn = "Get" -> GetInvalid(o)
    [] o.fn = "Put" -> PutInvalid(o)
    [] o.fn = "GetWithValue" -> GetWithValueInvalid(o)
    [] o.fn = "PutWithValue" -> PutWithValueInvalid(o)
    [] o.fn = "PutWithValuePrefix" -> PutWithValuePrefixInvalid(o)
    [] o.fn = "GetWithBucket" -> GetWithBucketInvalid(o)
    [] o.fn = "PutWithBucket" -> PutWithBucketInvalid(o)
    [] o.fn = "GetWithDB" -> GetWithDBInvalid(o)
    [] o.fn = "PutWithDB" -> PutWithDBInvalid(o)
    [] o.fn = "EachKV" -> EachKVInvalid(o)
    [] o.fn = "EachKVPrefix" -> EachKVPrefixInvalid(o)
    [] o.fn = "EachBucket" -> EachBucketInvalid(o)
    [] o.fn = "CountKV" -> CountKVInvalid(o)
    [] o.fn = "CountKVPrefix" -> CountKVPrefixInvalid(o)

\* What a function returns when its argument check fails: Get has no error
\* result and returns nil, the counts return (0, ErrInvalidArgument), the rest
\* return ErrInvalidArgument.
InvalidReturn(o) ==
  IF o.fn = "Get" THEN ErrNone ELSE ErrInvalidArgument

----------------------------------------------------------------------------
(* Goroutines *)

\* pc: "idle"   not in a call
\*     "open"   Open accepted its path and is at bbolt.Open
\*     "begin"  arguments accepted, at db.Update / db.View, no transaction yet
\*     "fn"     transaction open, at the first line of the closure
\*     "loop"   in the cursor loop of the closure, cursor at cur
\*     "cb"     inside the user callback that got the bucket or the transaction
\*     "nested" the user callback of a write function called a write function of
\*              the package (inner), which is at its db.Update
\*     "nestedfn" that inner call got its transaction
\*     "end"    the closure returned e; the transaction is to be committed or rolled back
\*     "remap"  the commit has to grow the data file and is at the lock of the memory map
\*     "done"   the function returned (err, val, n)
\* want is history: the generation and the expected content of the store when
\* the transaction of the call began
Idle ==
  [pc |-> "idle", op |-> NoOp, snap |-> NoSnap, cur |-> NilB, e |-> ErrNone,
   val |-> NilB, n |-> 0, obs |-> <<>>, err |-> ErrNone, inner |-> NoOp,
   want |-> NoWant]

\* a read transaction that reads the committed root of the moment
TxRootLive(p) ==
  IF IsWrite(proc[p].op.fn) THEN wtx.root ELSE db.root

\* the root the closure of p reads: the writer's working root or the reader's snapshot
TxRoot(p) ==
  IF IsWrite(proc[p].op.fn) THEN wtx.root ELSE proc[p].snap.root

\* write functions called and not yet returned or committed
InFlightWrites == Cardinality({q \in Procs : proc[q].pc \in {"open", "begin", "fn", "loop", "cb", "nested", "end", "remap"}
                                              /\ IsWrite(proc[q].op.fn)})

\* where the function handed to db.Update / db.View starts: GetWithDB and
\* PutWithDB hand over the user callback itself (lines 181, 188), the others
\* a closure of the package
FirstPc(fn) == IF fn \in {"GetWithDB", "PutWithDB"} THEN "cb" ELSE "fn"

\* A goroutine calls a function of the package with arguments o. Lines 45-47,
\* 69-71, ...: a failed argument check returns at once.
Call(p, o) ==
  /\ proc[p].pc = "idle"
  /\ IsWrite(o.fn) /\ ~Invalid(o) => db.txid + InFlightWrites < MaxGen
  /\ proc' = [proc EXCEPT ![p] =
       IF Invalid(o)
       THEN [Idle EXCEPT !.pc = "done", !.op = o, !.err = InvalidReturn(o)]
       ELSE [Idle EXCEPT !.pc = IF o.fn = "Open" THEN "open" ELSE "begin", !.op = o]]
  /\ UNCHANGED <<db, rwlock, wtx, expect>>

\* db.Update that opens its transaction without waiting for the writer mutex
BeginUpdateNoLock(p) ==
  /\ \/ proc[p].pc = "begin" /\ IsWrite(proc[p].op.fn)
     \/ proc[p].pc = "nested"
  /\ rwlock' = p
  /\ wtx' = [open |-> TRUE, root |-> db.root, writes |-> NoWrites, made |-> {}]
  /\ proc' = [proc EXCEPT ![p].pc = IF proc[p].pc = "nested" THEN "nestedfn"
                                    ELSE FirstPc(proc[p].op.fn),
                          ![p].want = [txid |-> db.txid, root |-> expect]]
  /\ UNCHANGED <<db, expect>>

\* db.Update(fn), first half: take the writer mutex (blocking while it is held)
\* and open a read-write transaction on the committed root.
BeginUpdate(p) ==
  /\ \/ proc[p].pc = "begin" /\ IsWrite(proc[p].op.fn)
     \/ proc[p].pc = "nested"
  /\ rwlock = NoProc
  /\ rwlock' = p
  /\ wtx' = [open |-> TRUE, root |-> db.root, writes |-> NoWrites, made |-> {}]
  /\ proc' = [proc EXCEPT ![p].pc = IF proc[p].pc = "nested" THEN "nestedfn"
                                    ELSE FirstPc(proc[p].op.fn),
                          ![p].want = [txid |-> db.txid, root |-> expect]]
  /\ UNCHANGED <<db, expect>>

\* the commit of a write transaction waits to remap the data file
RemapPending == \E q \in Procs : proc[q].pc = "remap"

\* the read transactions that are open; each holds the lock of the memory map shared
Readers == {q \in Procs : proc[q].snap.open}

\* db.View(fn), first half: take the lock of the memory map shared (blocking
\* while a remap waits for it or holds it) and open a read-only transaction on
\* the committed meta; it keeps that root until it ends. The writer mutex is
\* not touched.
BeginView(p) ==
  /\ proc[p].pc = "begin"
  /\ ~IsWrite(proc[p].op.fn)
  /\ ~RemapPending
  /\ proc' = [proc EXCEPT ![p].pc = FirstPc(proc[p].op.fn),
                          ![p].snap = [open |-> TRUE, txid |-> db.txid, root |-> db.root],
                          ![p].want = [txid |-> db.txid, root |-> expect]]
  /\ UNCHANGED <<db, rwlock, wtx, expect>>

\* The lock on the data file after Open's db.Update returned e (lines 37-41):
\* with nil the handle that holds the lock is returned to the caller; with an
\* error Open returns (nil, e) and nothing refers to the handle any more, which
\* was not closed. The other functions leave the lock alone.
Handle(p, e) ==
  IF proc[p].op.fn # "Open" THEN db.flock
  ELSE IF e = ErrNone THEN "caller" ELSE "lost"

\* db.Update that commits whatever fn returned
EndUpdateNoRollback(p) ==
  /\ proc[p].pc = "end"
  /\ IsWrite(proc[p].op.fn)
  /\ db' = [db EXCEPT !.txid = @ + 1, !.root = wtx.root, !.flock = Handle(p, ErrNone)]
  /\ expect' = Asked(expect, wtx)
  /\ rwlock' = NoProc
  /\ wtx' = NoTx
  /\ proc' = [proc EXCEPT ![p].pc = "done", ![p].err = proc[p].e]

\* db.Update(fn), second half: fn returned e. A nil e commits (the working
\* root becomes the committed root of the next generation), any other e rolls
\* back; both release the writer mutex and Update returns e. In Open (lines
\* 37-41) the handle then goes to the caller or is dropped.
EndUpdate(p) ==
  /\ proc[p].pc = "end"
  /\ IsWrite(proc[p].op.fn)
  /\ IF proc[p].e = ErrNone
     THEN /\ db' = [db EXCEPT !.txid = @ + 1, !.root = wtx.root, !.flock = Handle(p, ErrNone)]
          /\ expect' = Asked(expect, wtx)
     ELSE /\ db' = [db EXCEPT !.flock = Handle(p, proc[p].e)]
          /\ UNCHANGED expect
  /\ rwlock' = NoProc
  /\ wtx' = NoTx
  /\ proc' = [proc EXCEPT ![p].pc = "done", ![p].err = proc[p].e]

\* db.Update(fn), second half, when the pages to write do not fit the memory
\* map of the data file: the commit goes on to remap the file
CommitGrow(p) ==
  /\ proc[p].pc = "end"
  /\ IsWrite(proc[p].op.fn)
  /\ proc[p].e = ErrNone
  /\ proc' = [proc EXCEPT ![p].pc = "remap"]
  /\ UNCHANGED <<db, rwlock, wtx, expect>>

\* the remap takes the lock of the memory map exclusively, so it blocks until
\* every open read transaction has ended; then the commit completes as in EndUpdate
Remap(p) ==
  /\ proc[p].pc = "remap"
  /\ Readers = {}
  /\ db' = [db EXCEPT !.txid = @ + 1, !.root = wtx.root, !.flock = Handle(p, ErrNone)]
  /\ expect' = Asked(expect, wtx)
  /\ rwlock' = NoProc
  /\ wtx' = NoTx
  /\ proc' = [proc EXCEPT ![p].pc = "done", ![p].err = proc[p].e]

\* db.Update(fn), second half, when the commit cannot write the file: the
\* transaction is rolled back and Update returns the engine's error
CommitFail(p) ==
  /\ proc[p].pc = "end"
  /\ IsWrite(proc[p].op.fn)
  /\ proc[p].e = ErrNone
  /\ db' = [db EXCEPT !.flock = Handle(p, ErrCommit)]
  /\ rwlock' = NoProc
  /\ wtx' = NoTx
  /\ proc' = [proc EXCEPT ![p].pc = "done", ![p].err = ErrCommit]
  /\ UNCHANGED expect

\* db.View(fn), second half: fn returned e; the transaction is released and
\* View returns e. Get turns any e into a nil result (lines 62-65), the counts
\* return (0, e) or (ret, nil) (lines 258-261, 283-286).
EndView(p) ==
  /\ proc[p].pc = "end"
  /\ ~IsWrite(proc[p].op.fn)
  /\ proc' = [proc EXCEPT ![p] =
       [@ EXCEPT !.pc = "done",
                 !.snap = NoSnap,
                 !.err = IF proc[p].op.fn = "Get" THEN ErrNone ELSE proc[p].e,
                 !.val = IF proc[p].e # ErrNone THEN NilB ELSE @,
                 !.n = IF proc[p].e # ErrNone THEN 0 ELSE @]]
  /\ UNCHANGED <<db, rwlock, wtx, expect>>

\* the caller takes the result; the goroutine is free for its next call
Return(p) ==
  /\ proc[p].pc = "done"
  /\ proc' = [proc EXCEPT ![p] = Idle]
  /\ UNCHANGED <<db, rwlock, wtx, expect>>

----------------------------------------------------------------------------
(* Open *)

\* Open, lines 21-25 and 41: bbolt.Open(path, os.ModePerm, nil). It fails when
\* the file cannot be opened or is not a store, having closed what it opened.
\* Else it takes the lock on the file, waiting without a timeout while another
\* handle holds it. Without bucket names Open then returns the handle.
BboltOpen(p) ==
  LET o == proc[p].op IN
  /\ proc[p].pc = "open"
  /\ \/ /\ proc' = [proc EXCEPT ![p].pc = "done", ![p].err = ErrOpen]
        /\ UNCHANGED db
     \/ /\ db.flock = "free"
        /\ db' = [db EXCEPT !.flock = IF Len(o.names) > 0 THEN "opening" ELSE "caller",
                            !.by = p]
        /\ proc' = [proc EXCEPT ![p].pc = IF Len(o.names) > 0 THEN "begin" ELSE "done",
                                ![p].want = [txid |-> db.txid, root |-> expect]]
  /\ UNCHANGED <<rwlock, wtx, expect>>

\* Open, lines 27-35: the loop over the names, in the transaction's working root
RECURSIVE OpenCreate(_, _)
OpenCreate(root, names) ==
  IF names = <<>> THEN root
  ELSE OpenCreate(IF Len(Head(names)) > 0
                  THEN CreateBucketIfNotExists(root, Head(names))
                  ELSE root,
                  Tail(names))

\* Open, lines 26-36: the closure handed to db.Update. In this transaction
\* CreateBucketIfNotExists has no failing case: the transaction is writable, the
\* name is not empty, and the root holds nothing but buckets.
OpenFn(p) ==
  LET o == proc[p].op IN
  /\ proc[p].pc = "fn"
  /\ o.fn = "Open"
  /\ wtx' = [wtx EXCEPT !.root = OpenCreate(@, o.names),
                        !.made = {o.names[i] : i \in {j \in 1..Len(o.names) : o.names[j] # <<>>}}]
  /\ proc' = [proc EXCEPT ![p].pc = "end", ![p].e = ErrNone]
  /\ UNCHANGED <<db, rwlock, expect>>

\* The caller closes the handle that Open returned (db.Close), which waits for
\* open transactions and releases the lock on the file.
Close ==
  /\ db.flock = "caller"
  /\ rwlock = NoProc
  /\ \A q \in Procs : proc[q].pc \in {"idle", "open", "done"}
  /\ db' = [db EXCEPT !.flock = "free", !.by = NoProc]
  /\ UNCHANGED <<rwlock, wtx, proc, expect>>

\* The handle that Open dropped is referred to by nothing; when the garbage
\* collector gets to its file, if ever, the finalizer of os.File closes the
\* descriptor, which releases the lock.
Finalize ==
  /\ db.flock = "lost"
  /\ db' = [db EXCEPT !.flock = "free", !.by = NoProc]
  /\ UNCHANGED <<rwlock, wtx, proc, expect>>

----------------------------------------------------------------------------
(* The closures of the point functions *)

\* b.Put(key, value) on bucket `bucket` of the open read-write transaction:
\* the working root with the pair stored, and the write noted in its history
TxPut(tx, bucket, key, value) ==
  LET r == BucketPut(TRUE, tx.root[bucket], key, value)
  IN [err |-> r.err,
      tx |-> IF r.err # ErrNone THEN tx
             ELSE [tx EXCEPT !.root = [@ EXCEPT ![bucket] = r.bkt],
                             !.writes = [w \in (DOMAIN @) \cup {<<bucket, key>>} |->
                                           IF w = <<bucket, key>> THEN value ELSE @[w]]]]

\* Get that tests len(val) == 0 where the code tests val == nil
GetFnLenTest(p) ==
  LET o == proc[p].op
      root == TxRoot(p)
      val == IF HasBucket(root, o.bucket) THEN BucketGet(root[o.bucket], o.key) ELSE NilB
  IN
  /\ proc[p].pc = "fn"
  /\ o.fn = "Get"
  /\ proc' = [proc EXCEPT ![p] =
       IF ~HasBucket(root, o.bucket) THEN [@ EXCEPT !.pc = "end", !.e = ErrBucketNotFound]
       ELSE IF Len(val.b) = 0 THEN [@ EXCEPT !.pc = "end", !.e = ErrKeyNotFound]
       ELSE [@ EXCEPT !.pc = "end", !.e = ErrNone, !.val = B(val.b)]]
  /\ UNCHANGED <<db, rwlock, wtx, expect>>

\* Get, lines 49-61
GetFn(p) ==
  LET o == proc[p].op
      root == TxRoot(p)
      val == IF HasBucket(root, o.bucket) THEN BucketGet(root[o.bucket], o.key) ELSE NilB
  IN
  /\ proc[p].pc = "fn"
  /\ o.fn = "Get"
  /\ proc' = [proc EXCEPT ![p] =
       IF ~HasBucket(root, o.bucket) THEN [@ EXCEPT !.pc = "end", !.e = ErrBucketNotFound]
       ELSE IF val.nil THEN [@ EXCEPT !.pc = "end", !.e = ErrKeyNotFound]
       ELSE [@ EXCEPT !.pc = "end", !.e = ErrNone, !.val = B(val.b)]]
  /\ UNCHANGED <<db, rwlock, wtx, expect>>

\* Put that makes the bucket when the store lacks it
PutFnMakesBucket(p) ==
  LET o == proc[p].op
      tx == [wtx EXCEPT !.root = CreateBucketIfNotExists(@, o.bucket)]
      r == TxPut(tx, o.bucket, o.key, o.value)
  IN
  /\ proc[p].pc = "fn"
  /\ o.fn = "Put"
  /\ proc' = [proc EXCEPT ![p].pc = "end", ![p].e = r.err]
  /\ wtx' = r.tx
  /\ UNCHANGED <<db, rwlock, expect>>

\* Put, lines 72-78
PutFn(p) ==
  LET o == proc[p].op
      r == TxPut(wtx, o.bucket, o.key, o.value)
  IN
  /\ proc[p].pc = "fn"
  /\ o.fn = "Put"
  /\ IF ~HasBucket(wtx.root, o.bucket)
     THEN /\ proc' = [proc EXCEPT ![p].pc = "end", ![p].e = ErrBucketNotFound]
          /\ UNCHANGED wtx
     ELSE /\ proc' = [proc EXCEPT ![p].pc = "end", ![p].e = r.err]
          /\ wtx' = r.tx
  /\ UNCHANGED <<db, rwlock, expect>>

----------------------------------------------------------------------------
(* User callbacks: what the caller's code may do and return *)

\* byte strings a caller stores, and those a callback may hand back as a replacement
Vals == {<<1>>, <<2>>}
FunVals == Vals \cup {<<>>}

\* results of a callback func([]byte) ([]byte, error)
FunResults ==
  {[w |-> w, e |-> ErrNone] : w \in {NilB} \cup {B(v) : v \in FunVals}}
    \cup {[w |-> NilB, e |-> ErrFun]}

\* results of a callback that returns only an error
FunErrs == {ErrNone, ErrFun}

\* one invocation of a callback with (k, v) of bucket b, which handed back w
\* and returned e; or one read b.Get(k) = v made by a callback; or the error
\* e that a write or a nested call made by a callback returned to it
Obs(b, k, v, w, e) == [b |-> b, k |-> k, v |-> v, w |-> w, e |-> e]

\* GetWithValue, lines 85-95
GetWithValueFn(p, E) ==
  LET o == proc[p].op
      root == TxRoot(p)
      val == IF HasBucket(root, o.bucket) THEN BucketGet(root[o.bucket], o.key) ELSE NilB
  IN
  /\ proc[p].pc = "fn"
  /\ o.fn = "GetWithValue"
  /\ IF ~HasBucket(root, o.bucket)
     THEN proc' = [proc EXCEPT ![p].pc = "end", ![p].e = ErrBucketNotFound]
     ELSE IF val.nil
     THEN proc' = [proc EXCEPT ![p].pc = "end", ![p].e = ErrKeyNotFound]
     ELSE \E e \in E :
            proc' = [proc EXCEPT ![p].pc = "end", ![p].e = e,
                                 ![p].obs = Append(@, Obs(o.bucket, o.key, val, NilB, e))]
  /\ UNCHANGED <<db, rwlock, wtx, expect>>

\* PutWithValue that stores what fun handed back also when that is nil
PutWithValueFnAlwaysPut(p, F) ==
  LET o == proc[p].op
      val == IF HasBucket(wtx.root, o.bucket)
             THEN BucketGet(wtx.root[o.bucket], o.key) ELSE NilB
  IN
  /\ proc[p].pc = "fn"
  /\ o.fn = "PutWithValue"
  /\ IF ~HasBucket(wtx.root, o.bucket)
     THEN /\ proc' = [proc EXCEPT ![p].pc = "end", ![p].e = ErrBucketNotFound]
          /\ UNCHANGED wtx
     ELSE IF val.nil
     THEN /\ proc' = [proc EXCEPT ![p].pc = "end", ![p].e = ErrKeyNotFound]
          /\ UNCHANGED wtx
     ELSE \E f \in F :
            LET r == TxPut(wtx, o.bucket, o.key, f.w.b)
                seen == Append(proc[p].obs, Obs(o.bucket, o.key, val, f.w, f.e))
            IN IF f.e # ErrNone
               THEN /\ proc' = [proc EXCEPT ![p].pc = "end", ![p].e = f.e, ![p].obs = seen]
                    /\ UNCHANGED wtx
               ELSE IF TRUE
               THEN /\ proc' = [proc EXCEPT ![p].pc = "end", ![p].e = r.err, ![p].obs = seen]
                    /\ wtx' = r.tx
               ELSE /\ proc' = [proc EXCEPT ![p].pc = "end", ![p].e = ErrNone, ![p].obs = seen]
                    /\ UNCHANGED wtx
  /\ UNCHANGED <<db, rwlock, expect>>

\* PutWithValue, lines 102-119
PutWithValueFn(p, F) ==
  LET o == proc[p].op
      val == IF HasBucket(wtx.root, o.bucket)
             THEN BucketGet(wtx.root[o.bucket], o.key) ELSE NilB
  IN
  /\ proc[p].pc = "fn"
  /\ o.fn = "PutWithValue"
  /\ IF ~HasBucket(wtx.root, o.bucket)
     THEN /\ proc' = [proc EXCEPT ![p].pc = "end", ![p].e = ErrBucketNotFound]
          /\ UNCHANGED wtx
     ELSE IF val.nil
     THEN /\ proc' = [proc EXCEPT ![p].pc = "end", ![p].e = ErrKeyNotFound]
          /\ UNCHANGED wtx
     ELSE \E f \in F :
            LET r == TxPut(wtx, o.bucket, o.key, f.w.b)
                seen == Append(proc[p].obs, Obs(o.bucket, o.key, val, f.w, f.e))
            IN IF f.e # ErrNone
               THEN /\ proc' = [proc EXCEPT ![p].pc = "end", ![p].e = f.e, ![p].obs = seen]
                    /\ UNCHANGED wtx
               ELSE IF ~f.w.nil
               THEN /\ proc' = [proc EXCEPT ![p].pc = "end", ![p].e = r.err, ![p].obs = seen]
                    /\ wtx' = r.tx
               ELSE /\ proc' = [proc EXCEPT ![p].pc = "end", ![p].e = ErrNone, ![p].obs = seen]
                    /\ UNCHANGED wtx
  /\ UNCHANGED <<db, rwlock, expect>>

----------------------------------------------------------------------------
(* The closures that walk a cursor *)

\* PutWithValuePrefix, lines 127-132: bucket lookup, c.Seek(prefix)
PutWithValuePrefixFn(p) ==
  LET o == proc[p].op IN
  /\ proc[p].pc = "fn"
  /\ o.fn = "PutWithValuePrefix"
  /\ proc' = [proc EXCEPT ![p] =
       IF ~HasBucket(wtx.root, o.bucket)
       THEN [@ EXCEPT !.pc = "end", !.e = ErrBucketNotFound]
       ELSE [@ EXCEPT !.pc = "loop", !.cur = CursorSeek(wtx.root[o.bucket], o.prefix)]]
  /\ UNCHANGED <<db, rwlock, wtx, expect>>

\* PutWithValuePrefix that leaves the loop on an error of fun and returns nil
PutWithValuePrefixLoopBreak(p, F) ==
  LET o == proc[p].op
      k == proc[p].cur
      bkt == wtx.root[o.bucket]
  IN
  /\ proc[p].pc = "loop"
  /\ o.fn = "PutWithValuePrefix"
  /\ IF k.nil \/ ~HasPrefix(k.b, o.prefix)
     THEN /\ proc' = [proc EXCEPT ![p].pc = "end", ![p].e = ErrNone]
          /\ UNCHANGED wtx
     ELSE \E f \in F :
            LET r == TxPut(wtx, o.bucket, k.b, f.w.b)
                seen == Append(proc[p].obs, Obs(o.bucket, k.b, B(bkt[k.b]), f.w, f.e))
            IN IF f.e # ErrNone
               THEN /\ proc' = [proc EXCEPT ![p].pc = "end", ![p].e = ErrNone, ![p].obs = seen]
                    /\ UNCHANGED wtx
               ELSE IF ~f.w.nil /\ r.err # ErrNone
               THEN /\ proc' = [proc EXCEPT ![p].pc = "end", ![p].e = r.err, ![p].obs = seen]
                    /\ UNCHANGED wtx
               ELSE /\ wtx' = IF f.w.nil THEN wtx ELSE r.tx
                    /\ proc' = [proc EXCEPT ![p].obs = seen,
                                            ![p].cur = CursorNext(wtx'.root[o.bucket], k.b)]
  /\ UNCHANGED <<db, rwlock, expect>>

\* PutWithValuePrefix, lines 132-147: one turn of the loop (test, fun, Put, c.Next)
PutWithValuePrefixLoop(p, F) ==
  LET o == proc[p].op
      k == proc[p].cur
      bkt == wtx.root[o.bucket]
  IN
  /\ proc[p].pc = "loop"
  /\ o.fn = "PutWithValuePrefix"
  /\ IF k.nil \/ ~HasPrefix(k.b, o.prefix)
     THEN /\ proc' = [proc EXCEPT ![p].pc = "end", ![p].e = ErrNone]
          /\ UNCHANGED wtx
     ELSE \E f \in F :
            LET r == TxPut(wtx, o.bucket, k.b, f.w.b)
                seen == Append(proc[p].obs, Obs(o.bucket, k.b, B(bkt[k.b]), f.w, f.e))
            IN IF f.e # ErrNone
               THEN /\ proc' = [proc EXCEPT ![p].pc = "end", ![p].e = f.e, ![p].obs = seen]
                    /\ UNCHANGED wtx
               ELSE IF ~f.w.nil /\ r.err # ErrNone
               THEN /\ proc' = [proc EXCEPT ![p].pc = "end", ![p].e = r.err, ![p].obs = seen]
                    /\ UNCHANGED wtx
               ELSE /\ wtx' = IF f.w.nil THEN wtx ELSE r.tx
                    /\ proc' = [proc EXCEPT ![p].obs = seen,
                                            ![p].cur = CursorNext(wtx'.root[o.bucket], k.b)]
  /\ UNCHANGED <<db, rwlock, expect>>

\* EachKV, lines 196-201: bucket lookup, c.First()
EachKVFn(p) ==
  LET o == proc[p].op
      root == TxRoot(p)
  IN
  /\ proc[p].pc = "fn"
  /\ o.fn = "EachKV"
  /\ proc' = [proc EXCEPT ![p] =
       IF ~HasBucket(root, o.bucket)
       THEN [@ EXCEPT !.pc = "end", !.e = ErrBucketNotFound]
       ELSE [@ EXCEPT !.pc = "loop", !.cur = CursorFirst(root[o.bucket])]]
  /\ UNCHANGED <<db, rwlock, wtx, expect>>

\* EachKV that goes on to the next key when fun returned an error
EachKVLoopGoesOn(p, E) ==
  LET o == proc[p].op
      k == proc[p].cur
      bkt == TxRoot(p)[o.bucket]
  IN
  /\ proc[p].pc = "loop"
  /\ o.fn = "EachKV"
  /\ IF k.nil
     THEN proc' = [proc EXCEPT ![p].pc = "end"]
     ELSE \E e \in E :
            LET seen == Append(proc[p].obs, Obs(o.bucket, k.b, B(bkt[k.b]), NilB, e))
            IN proc' = [proc EXCEPT ![p] =
                 [@ EXCEPT !.obs = seen, !.cur = CursorNext(bkt, k.b),
                           !.e = IF e # ErrNone THEN e ELSE @]]
  /\ UNCHANGED <<db, rwlock, wtx, expect>>

\* EachKV, lines 201-206: one turn of the loop
EachKVLoop(p, E) ==
  LET o == proc[p].op
      k == proc[p].cur
      bkt == TxRoot(p)[o.bucket]
  IN
  /\ proc[p].pc = "loop"
  /\ o.fn = "EachKV"
  /\ IF k.nil
     THEN proc' = [proc EXCEPT ![p].pc = "end", ![p].e = ErrNone]
     ELSE \E e \in E :
            LET seen == Append(proc[p].obs, Obs(o.bucket, k.b, B(bkt[k.b]), NilB, e))
            IN proc' = [proc EXCEPT ![p] =
                 IF e # ErrNone
                 THEN [@ EXCEPT !.pc = "end", !.e = e, !.obs = seen]
                 ELSE [@ EXCEPT !.obs = seen, !.cur = CursorNext(bkt, k.b)]]
  /\ UNCHANGED <<db, rwlock, wtx, expect>>

\* EachKVPrefix, lines 215-220: bucket lookup, c.Seek(prefix)
EachKVPrefixFn(p) ==
  LET o == proc[p].op
      root == TxRoot(p)
  IN
  /\ proc[p].pc = "fn"
  /\ o.fn = "EachKVPrefix"
  /\ proc' = [proc EXCEPT ![p] =
       IF ~HasBucket(root, o.bucket)
       THEN [@ EXCEPT !.pc = "end", !.e = ErrBucketNotFound]
       ELSE [@ EXCEPT !.pc = "loop", !.cur = CursorSeek(root[o.bucket], o.prefix)]]
  /\ UNCHANGED <<db, rwlock, wtx, expect>>

\* EachKVPrefix, lines 220-228: one turn of the loop
EachKVPrefixLoop(p, E) ==
  LET o == proc[p].op
      k == proc[p].cur
      bkt == TxRoot(p)[o.bucket]
  IN
  /\ proc[p].pc = "loop"
  /\ o.fn = "EachKVPrefix"
  /\ IF k.nil \/ ~HasPrefix(k.b, o.prefix)
     THEN proc' = [proc EXCEPT ![p].pc = "end", ![p].e = ErrNone]
     ELSE \E e \in E :
            LET seen == Append(proc[p].obs, Obs(o.bucket, k.b, B(bkt[k.b]), NilB, e))
            IN proc' = [proc EXCEPT ![p] =
                 IF e # ErrNone
                 THEN [@ EXCEPT !.pc = "end", !.e = e, !.obs = seen]
                 ELSE [@ EXCEPT !.obs = seen, !.cur = CursorNext(bkt, k.b)]]
  /\ UNCHANGED <<db, rwlock, wtx, expect>>

\* CountKV whose statistic goes up with every committed write, also one that
\* replaces the value of a stored key
CountKVFnPerWrite(p) ==
  LET o == proc[p].op
      root == TxRoot(p)
  IN
  /\ proc[p].pc = "fn"
  /\ o.fn = "CountKV"
  /\ proc' = [proc EXCEPT ![p] =
       IF ~HasBucket(root, o.bucket)
       THEN [@ EXCEPT !.pc = "end", !.e = ErrBucketNotFound]
       ELSE [@ EXCEPT !.pc = "end", !.e = ErrNone, !.n = proc[p].snap.txid]]
  /\ UNCHANGED <<db, rwlock, wtx, expect>>

\* CountKV, lines 250-257: b.Stats().KeyN is the number of keys of the bucket
CountKVFn(p) ==
  LET o == proc[p].op
      root == TxRoot(p)
  IN
  /\ proc[p].pc = "fn"
  /\ o.fn = "CountKV"
  /\ proc' = [proc EXCEPT ![p] =
       IF ~HasBucket(root, o.bucket)
       THEN [@ EXCEPT !.pc = "end", !.e = ErrBucketNotFound]
       ELSE [@ EXCEPT !.pc = "end", !.e = ErrNone, !.n = Cardinality(DOMAIN root[o.bucket])]]
  /\ UNCHANGED <<db, rwlock, wtx, expect>>

\* CountKVPrefix, lines 270-275: bucket lookup, c.Seek(prefix)
CountKVPrefixFn(p) ==
  LET o == proc[p].op
      root == TxRoot(p)
  IN
  /\ proc[p].pc = "fn"
  /\ o.fn = "CountKVPrefix"
  /\ proc' = [proc EXCEPT ![p] =
       IF ~HasBucket(root, o.bucket)
       THEN [@ EXCEPT !.pc = "end", !.e = ErrBucketNotFound]
       ELSE [@ EXCEPT !.pc = "loop", !.cur = CursorSeek(root[o.bucket], o.prefix)]]
  /\ UNCHANGED <<db, rwlock, wtx, expect>>

\* CountKVPrefix that counts on to the end of the bucket
CountKVPrefixLoopNoBreak(p) ==
  LET o == proc[p].op
      k == proc[p].cur
      bkt == TxRoot(p)[o.bucket]
  IN
  /\ proc[p].pc = "loop"
  /\ o.fn = "CountKVPrefix"
  /\ proc' = [proc EXCEPT ![p] =
       IF k.nil
       THEN [@ EXCEPT !.pc = "end", !.e = ErrNone]
       ELSE [@ EXCEPT !.n = @ + 1, !.cur = CursorNext(bkt, k.b)]]
  /\ UNCHANGED <<db, rwlock, wtx, expect>>

\* CountKVPrefix, lines 275-281: one turn of the loop
CountKVPrefixLoop(p) ==
  LET o == proc[p].op
      k == proc[p].cur
      bkt == TxRoot(p)[o.bucket]
  IN
  /\ proc[p].pc = "loop"
  /\ o.fn = "CountKVPrefix"
  /\ proc' = [proc EXCEPT ![p] =
       IF k.nil \/ ~HasPrefix(k.b, o.prefix)
       THEN [@ EXCEPT !.pc = "end", !.e = ErrNone]
       ELSE [@ EXCEPT !.n = @ + 1, !.cur = CursorNext(bkt, k.b)]]
  /\ UNCHANGED <<db, rwlock, wtx, expect>>

----------------------------------------------------------------------------
(* The functions that hand the bucket or the transaction to a user callback *)

\* GetWithBucket, lines 155-161, up to the call of fun
GetWithBucketFn(p) ==
  LET o == proc[p].op IN
  /\ proc[p].pc = "fn"
  /\ o.fn = "GetWithBucket"
  /\ proc' = [proc EXCEPT ![p] =
       IF ~HasBucket(TxRoot(p), o.bucket)
       THEN [@ EXCEPT !.pc = "end", !.e = ErrBucketNotFound]
       ELSE [@ EXCEPT !.pc = "cb"]]
  /\ UNCHANGED <<db, rwlock, wtx, expect>>

\* PutWithBucket, lines 168-174, up to the call of fun
PutWithBucketFn(p) ==
  LET o == proc[p].op IN
  /\ proc[p].pc = "fn"
  /\ o.fn = "PutWithBucket"
  /\ proc' = [proc EXCEPT ![p] =
       IF ~HasBucket(TxRoot(p), o.bucket)
       THEN [@ EXCEPT !.pc = "end", !.e = ErrBucketNotFound]
       ELSE [@ EXCEPT !.pc = "cb"]]
  /\ UNCHANGED <<db, rwlock, wtx, expect>>

\* EachBucket, lines 236-242, up to the call of fun
EachBucketFn(p) ==
  LET o == proc[p].op IN
  /\ proc[p].pc = "fn"
  /\ o.fn = "EachBucket"
  /\ proc' = [proc EXCEPT ![p] =
       IF ~HasBucket(TxRoot(p), o.bucket)
       THEN [@ EXCEPT !.pc = "end", !.e = ErrBucketNotFound]
       ELSE [@ EXCEPT !.pc = "cb"]]
  /\ UNCHANGED <<db, rwlock, wtx, expect>>

\* the buckets a callback can reach: the one it was handed, or, when handed
\* the transaction, any bucket tx.Bucket finds
CbBuckets(p) ==
  IF proc[p].op.fn \in {"GetWithDB", "PutWithDB"}
  THEN DOMAIN TxRoot(p)
  ELSE {proc[p].op.bucket}

\* b.Put of a callback that the engine lets through on a read-only transaction
CbPutWritable(p, K, V) ==
  /\ proc[p].pc = "cb"
  /\ Len(proc[p].obs) < MaxCbSteps
  /\ \E b \in CbBuckets(p), k \in K, v \in V :
       IF IsWrite(proc[p].op.fn)
       THEN LET r == TxPut(wtx, b, k, v) IN
            /\ wtx' = r.tx
            /\ proc' = [proc EXCEPT ![p].obs = Append(@, Obs(<<>>, <<>>, NilB, NilB, r.err))]
       ELSE LET r == BucketPut(TRUE, TxRoot(p)[b], k, v) IN
            /\ proc' = [proc EXCEPT ![p].obs = Append(@, Obs(<<>>, <<>>, NilB, NilB, r.err)),
                                    ![p].snap.root[b] = r.bkt]
            /\ UNCHANGED wtx
  /\ UNCHANGED <<db, rwlock, expect>>

\* The user callback calls b.Put(k, v) on the bucket of its transaction. On a
\* read-only transaction the engine refuses with ErrTxNotWritable.
CbPut(p, K, V) ==
  /\ proc[p].pc = "cb"
  /\ Len(proc[p].obs) < MaxCbSteps
  /\ \E b \in CbBuckets(p), k \in K, v \in V :
       IF IsWrite(proc[p].op.fn)
       THEN LET r == TxPut(wtx, b, k, v) IN
            /\ wtx' = r.tx
            /\ proc' = [proc EXCEPT ![p].obs = Append(@, Obs(<<>>, <<>>, NilB, NilB, r.err))]
       ELSE LET r == BucketPut(FALSE, TxRoot(p)[b], k, v) IN
            /\ proc' = [proc EXCEPT ![p].obs = Append(@, Obs(<<>>, <<>>, NilB, NilB, r.err)),
                                    ![p].snap.root[b] = r.bkt]
            /\ UNCHANGED wtx
  /\ UNCHANGED <<db, rwlock, expect>>

\* The user callback calls b.Get(k) on a bucket of its transaction.
CbGet(p, K) ==
  /\ proc[p].pc = "cb"
  /\ Len(proc[p].obs) < MaxCbSteps
  /\ \E b \in CbBuckets(p), k \in K :
       proc' = [proc EXCEPT ![p].obs =
                  Append(@, Obs(b, k, BucketGet(TxRoot(p)[b], k), NilB, "get"))]
  /\ UNCHANGED <<db, rwlock, wtx, expect>>

\* The user callback of a write function calls a write function of the package
\* on the same db. With bad arguments the inner call returns at once; else it
\* goes to its db.Update, which waits for the writer mutex.
CbNested(p, menu) ==
  /\ proc[p].pc = "cb"
  /\ IsWrite(proc[p].op.fn)
  /\ Len(proc[p].obs) < MaxCbSteps
  /\ \E o \in menu :
       /\ IsWrite(o.fn)
       /\ proc' = [proc EXCEPT ![p] =
            IF Invalid(o)
            THEN [@ EXCEPT !.obs = Append(@, Obs(<<>>, <<>>, NilB, NilB, InvalidReturn(o)))]
            ELSE [@ EXCEPT !.pc = "nested", !.inner = o]]
  /\ UNCHANGED <<db, rwlock, wtx, expect>>

\* The user callback returns, nil or an error of its own.
CbReturn(p, E) ==
  /\ proc[p].pc = "cb"
  /\ \E e \in E :
       proc' = [proc EXCEPT ![p].pc = "end", ![p].e = e]
  /\ UNCHANGED <<db, rwlock, wtx, expect>>

----------------------------------------------------------------------------
(* Argument domains *)

\* keys "a", "ab", "b"
Keys == {<<1>>, <<1, 2>>, <<2>>}
\* bucket <<1>> is created by Open, bucket <<2>> never is
OpenBuckets == {<<1>>}
Buckets == {<<1>>, <<2>>}

UsesBucket(fn) == fn \notin {"GetWithDB", "PutWithDB"}
UsesKey(fn) == fn \in {"Get", "Put", "GetWithValue", "PutWithValue"}
UsesValue(fn) == fn = "Put"
UsesPrefix(fn) == fn \in {"PutWithValuePrefix", "EachKVPrefix", "CountKVPrefix"}
UsesFun(fn) == fn \notin {"Get", "Put", "CountKV", "CountKVPrefix"}

\* the calls of the functions fns with arguments from the given sets
Calls(fns, dbs, buckets, keys, values, prefixes, funs) ==
  UNION {{Op(fn, d, b, k, v, x, f) :
            d \in dbs,
            b \in IF UsesBucket(fn) THEN buckets ELSE {<<>>},
            k \in IF UsesKey(fn) THEN keys ELSE {<<>>},
            v \in IF UsesValue(fn) THEN values ELSE {<<>>},
            x \in IF UsesPrefix(fn) THEN prefixes ELSE {<<>>},
            f \in IF UsesFun(fn) THEN funs ELSE {FALSE}} : fn \in fns}

\* the store Open(path, <<1>>) leaves: bucket <<1>>, empty
OpenedRoot == [b \in OpenBuckets |-> EmptyBucket]

\* the store is open: the caller has the handle, which holds the lock on the file
InitWith(root) ==
  /\ db = [txid |-> 0, root |-> root, flock |-> "caller", by |-> NoProc]
  /\ rwlock = NoProc
  /\ wtx = NoTx
  /\ proc = [p \in Procs |-> Idle]
  /\ expect = root

Init == InitWith(OpenedRoot)

----------------------------------------------------------------------------------------------------------------------------------------------------------------------------------------------------
(* Concurrent callers: well-formed calls of the write functions and of Get *)

ConcCalls ==
  Calls({"Get", "Put", "PutWithValue", "PutWithValuePrefix", "PutWithBucket", "PutWithDB"},
        {FALSE}, {<<1>>}, {<<1>>, <<1, 2>>}, {<<1>>}, {<<1>>}, {FALSE})

ConcFun == {[w |-> NilB, e |-> ErrNone], [w |-> B(<<2>>), e |-> ErrNone], [w |-> NilB, e |-> ErrFun]}

\* what a PutWithBucket / PutWithDB callback does: the keys and values of its
\* Puts, and the calls of the package it makes from inside the transaction
ConcCbKeys == {<<1>>, <<1, 2>>}
ConcCbVals == {<<2>>}
NestedCalls == Calls({"Put"}, {FALSE}, {<<1>>}, {<<1>>}, {<<>>, <<1>>}, {<<>>}, {FALSE})

Next ==
  \E p \in Procs :
    \/ \E o \in ConcCalls : Call(p, o)
    \/ BeginUpdate(p)
    \/ BeginView(p)
    \/ EndUpdate(p)
    \/ EndView(p)
    \/ Return(p)
    \/ GetFn(p)
    \/ PutFn(p)
    \/ PutWithValueFn(p, ConcFun)
    \/ PutWithValuePrefixFn(p)
    \/ PutWithValuePrefixLoop(p, ConcFun)
    \/ PutWithBucketFn(p)
    \/ CbPut(p, ConcCbKeys, ConcCbVals)
    \/ CbNested(p, NestedCalls)
    \/ CbReturn(p, FunErrs)

Spec == Init /\ [][Next]_vars

----------------------------------------------------------------------------
(* A reader beside a writer: goroutine 1 calls Put, goroutine 2 runs read    *)
(* transactions of several steps meanwhile                                  *)

SnapCalls(p) ==
  Calls(IF p = 1 THEN {"Put"} ELSE {"GetWithDB", "GetWithBucket", "EachKV", "EachKVPrefix"},
        {FALSE}, {<<1>>}, {<<1>>, <<1, 2>>}, {<<1>>, <<2>>}, {<<1>>}, {FALSE})

NextSnap ==
  \E p \in Procs :
    \/ \E o \in SnapCalls(p) : Call(p, o)
    \/ BeginUpdate(p)
    \/ BeginView(p)
    \/ EndUpdate(p)
    \/ EndView(p)
    \/ Return(p)
    \/ PutFn(p)
    \/ GetWithBucketFn(p)
    \/ EachKVFn(p)
    \/ EachKVLoop(p, FunErrs)
    \/ EachKVPrefixFn(p)
    \/ EachKVPrefixLoop(p, FunErrs)
    \/ CbGet(p, ConcCbKeys)
    \/ CbReturn(p, FunErrs)

SpecSnap == Init /\ [][NextSnap]_vars

----------------------------------------------------------------------------
(* Readers whose callbacks try to write, beside a writer whose commits may  *)
(* have to grow the data file                                               *)

MapCalls(p) ==
  Calls(IF p = 1 THEN {"Put"}
        ELSE {"GetWithDB", "GetWithBucket", "EachBucket", "GetWithValue", "EachKV", "EachKVPrefix"},
        {FALSE}, {<<1>>}, {<<1>>}, {<<1>>, <<2>>}, {<<1>>}, {FALSE})

\* the key a read callback looks up
MapCbKeys == {<<1>>}

NextMap ==
  \E p \in Procs :
    \/ \E o \in MapCalls(p) : Call(p, o)
    \/ BeginUpdate(p)
    \/ BeginView(p)
    \/ EndUpdate(p)
    \/ CommitGrow(p)
    \/ Remap(p)
    \/ EndView(p)
    \/ Return(p)
    \/ PutFn(p)
    \/ GetWithValueFn(p, FunErrs)
    \/ GetWithBucketFn(p)
    \/ EachBucketFn(p)
    \/ EachKVFn(p)
    \/ EachKVLoop(p, FunErrs)
    \/ EachKVPrefixFn(p)
    \/ EachKVPrefixLoop(p, FunErrs)
    \/ CbPut(p, ConcCbKeys, ConcCbVals)
    \/ CbGet(p, MapCbKeys)
    \/ CbReturn(p, FunErrs)

SpecMap == Init /\ [][NextMap]_vars

----------------------------------------------------------------------------
(* Open and Close of one data file by two goroutines *)

\* bucket names handed to Open: none, one or two, the empty name among them
OpenNames ==
  {<<>>, <<(<<>>)>>, <<(<<1>>)>>, <<(<<1>>), <<2>>>>, <<(<<>>), <<2>>>>, <<(<<2>>), <<2>>>>}

\* the file is new (no bucket), or holds bucket <<1>> with a pair
OpenRoots == {[b \in {} |-> EmptyBucket], [b \in {<<1>>} |-> [k \in {<<1>>} |-> <<1>>]]}

\* no handle is open on the file
InitClosed(root) ==
  /\ db = [txid |-> 0, root |-> root, flock |-> "free", by |-> NoProc]
  /\ rwlock = NoProc
  /\ wtx = NoTx
  /\ proc = [p \in Procs |-> Idle]
  /\ expect = root

InitOpen == \E root \in OpenRoots : InitClosed(root)

\* the calls of Open: an empty or a good path, with each list of names
OpenCalls == {OpenOp(path, names) : path \in {<<>>, <<1>>}, names \in OpenNames}

NextOpen ==
  \/ \E p \in Procs :
       \/ \E o \in OpenCalls : Call(p, o)
       \/ BboltOpen(p)
       \/ BeginUpdate(p)
       \/ OpenFn(p)
       \/ EndUpdate(p)
       \/ CommitFail(p)
       \/ Return(p)
  \/ Close
  \/ Finalize

SpecOpen == InitOpen /\ [][NextOpen]_vars

----------------------------------------------------------------------------
(* One caller, every function, every combination of good and bad arguments *)

SeqCalls ==
  Calls(ReadFns \cup WriteFns, BOOLEAN, {<<>>} \cup Buckets,
        {<<>>, <<1>>, <<1, 2>>}, {<<>>} \cup Vals, {<<>>, <<1>>, <<1, 2>>, <<2>>}, BOOLEAN)
    \cup {OpenOp(<<>>, names) : names \in {<<>>, <<(<<1>>)>>}}

\* the keys a write callback puts: the empty key too
SeqCbKeys == {<<>>, <<1>>, <<1, 2>>}

NextSeq ==
  \E p \in {1} :
    \/ \E o \in SeqCalls : Call(p, o)
    \/ BeginUpdate(p)
    \/ BeginView(p)
    \/ EndUpdate(p)
    \/ EndView(p)
    \/ Return(p)
    \/ GetFn(p)
    \/ PutFn(p)
    \/ GetWithValueFn(p, FunErrs)
    \/ PutWithValueFn(p, FunResults)
    \/ PutWithValuePrefixFn(p)
    \/ PutWithValuePrefixLoop(p, FunResults)
    \/ GetWithBucketFn(p)
    \/ PutWithBucketFn(p)
    \/ EachBucketFn(p)
    \/ EachKVFn(p)
    \/ EachKVLoop(p, FunErrs)
    \/ EachKVPrefixFn(p)
    \/ EachKVPrefixLoop(p, FunErrs)
    \/ CountKVFn(p)
    \/ CountKVPrefixFn(p)
    \/ CountKVPrefixLoop(p)
    \/ CbPut(p, SeqCbKeys, Vals)
    \/ CbGet(p, ConcCbKeys)
    \/ CbReturn(p, FunErrs)

SpecSeq == Init /\ [][NextSeq]_vars

----------------------------------------------------------------------------
(* Scans over every content of one bucket *)

\* keys "a", "ab", "abc", "abd", "b"
ScanKeys == {<<1>>, <<1, 2>>, <<1, 2, 3>>, <<1, 2, 4>>, <<2>>}
\* prefixes "a", "ab", "abc", "ac", "b", "c"
ScanPrefixes == {<<1>>, <<1, 2>>, <<1, 2, 3>>, <<1, 3>>, <<2>>, <<3>>}

\* every bucket that Put calls with keys of ScanKeys and values of Vals can build
ScanRoots ==
  UNION {{[b \in OpenBuckets |-> f] : f \in [S -> Vals]} : S \in SUBSET ScanKeys}

InitScan == \E root \in ScanRoots : InitWith(root)

ScanCalls ==
  Calls({"EachKV", "EachKVPrefix"}, {FALSE}, {<<1>>}, {<<>>}, {<<>>}, ScanPrefixes, {FALSE})

NextScan ==
  \E p \in {1} :
    \/ \E o \in ScanCalls : Call(p, o)
    \/ BeginView(p)
    \/ EachKVFn(p)
    \/ EachKVLoop(p, FunErrs)
    \/ EachKVPrefixFn(p)
    \/ EachKVPrefixLoop(p, FunErrs)
    \/ EndView(p)
    \/ Return(p)

SpecScan == InitScan /\ [][NextScan]_vars

----------------------------------------------------------------------------
(* Counts beside scans: goroutine 1 counts and replaces values under a      *)
(* prefix, goroutine 2 scans, over every content of one bucket on three keys *)

\* prefixes "a", "ab", "b", "c"
CountPrefixes == {<<1>>, <<1, 2>>, <<2>>, <<3>>}

CountRoots ==
  UNION {{[b \in OpenBuckets |-> f] : f \in [S -> {<<1>>}]} : S \in SUBSET Keys}

CountCalls(p) ==
  Calls(IF p = 1 THEN {"CountKV", "CountKVPrefix", "PutWithValuePrefix"}
        ELSE {"EachKV", "EachKVPrefix"},
        {FALSE}, {<<1>>}, {<<>>}, {<<>>}, CountPrefixes, {FALSE})

InitCount == \E root \in CountRoots : InitWith(root)

NextCount ==
  \E p \in Procs :
    \/ \E o \in CountCalls(p) : Call(p, o)
    \/ BeginUpdate(p)
    \/ BeginView(p)
    \/ EndUpdate(p)
    \/ EndView(p)
    \/ Return(p)
    \/ CountKVFn(p)
    \/ CountKVPrefixFn(p)
    \/ CountKVPrefixLoop(p)
    \/ PutWithValuePrefixFn(p)
    \/ PutWithValuePrefixLoop(p, ConcFun)
    \/ EachKVFn(p)
    \/ EachKVLoop(p, FunErrs)
    \/ EachKVPrefixFn(p)
    \/ EachKVPrefixLoop(p, FunErrs)

SpecCount == InitCount /\ [][NextCount]_vars

----------------------------------------------------------------------------
(* Properties *)

\* p is inside the transaction of its call
InTx(p) == proc[p].pc \in {"fn", "loop", "cb", "nested", "nestedfn", "end", "remap"}

\* C1: round trip. When Put(db, b, k, v) returns nil, v is the last committed
\* write to k and the committed content is the expected one; and a Get(db, b, k)
\* returns the last write to k committed before its transaction began. So Get
\* returns exactly v until another write to k commits.
C1_RoundTrip ==
  [][\A p \in Procs :
       LET o == proc[p].op IN
       /\ (o.fn = "Put" /\ proc[p].pc = "end" /\ proc'[p].pc = "done"
             /\ proc'[p].err = ErrNone)
            => /\ o.key \in DOMAIN expect'[o.bucket]
               /\ expect'[o.bucket][o.key] = o.value
               /\ db'.root = expect'
       /\ (o.fn = "Get" /\ proc[p].pc = "end" /\ proc'[p].pc = "done"
             /\ o.key \in DOMAIN proc[p].want.root[o.bucket])
            => proc'[p].val = B(proc[p].want.root[o.bucket][o.key])
    ]_vars

\* a Put that replaced another value of k has returned nil, and a Get of k that
\* began in the generation this Put committed has returned the value put
C1_Witness ==
  \E p, q \in Procs :
    /\ proc[q].pc = "done" /\ proc[q].op.fn = "Put" /\ proc[q].err = ErrNone
    /\ proc[q].op.key \in DOMAIN proc[q].want.root[proc[q].op.bucket]
    /\ proc[q].want.root[proc[q].op.bucket][proc[q].op.key] # proc[q].op.value
    /\ proc[p].pc = "done" /\ proc[p].op.fn = "Get"
    /\ proc[p].op.bucket = proc[q].op.bucket /\ proc[p].op.key = proc[q].op.key
    /\ proc[p].want.txid = proc[q].want.txid + 1
    /\ proc[p].val = B(proc[q].op.value)

\* C2: commit or rollback. While PutWithDB, PutWithBucket or PutWithValue is
\* in its transaction the committed content stays what it was when the
\* transaction began; when the callback returned an error the function returns
\* that error and the committed store is left as it was; when it returned nil
\* the function returns nil and all writes of the transaction are committed in
\* one step, as one new generation.
C2_CommitOrRollback ==
  [][\A p \in Procs :
       (proc[p].op.fn \in {"PutWithDB", "PutWithBucket", "PutWithValue"} /\ InTx(p))
         => /\ db.root = proc[p].want.root
            /\ db.txid = proc[p].want.txid
            /\ IF proc'[p].pc = "done"
               THEN IF proc[p].e # ErrNone
                    THEN proc'[p].err = proc[p].e /\ db' = db
                    ELSE /\ proc'[p].err = ErrNone
                         /\ db'.root = Overlay(db.root, wtx.writes)
                         /\ db'.txid = db.txid + 1
               ELSE db' = db
    ]_vars

\* the callback of PutWithDB stored a pair, then returned an error; PutWithDB
\* has returned that error and the committed content is the one before the call
C2_Witness ==
  \E p \in Procs :
    /\ proc[p].pc = "done" /\ proc[p].op.fn = "PutWithDB"
    /\ proc[p].err = ErrFun
    /\ Len(proc[p].obs) > 0 /\ proc[p].obs[1].e = ErrNone
    /\ db.root = proc[p].want.root

\* C4: writer serialization. At most one goroutine is inside a write
\* transaction, and it holds the writer mutex; the committed content is the
\* initial content overlaid with the writes of whole committed transactions in
\* commit order; every read transaction reads one such committed content, and
\* Get returns what that content holds.
C4_WriterSerialization ==
  /\ \A p, q \in Procs :
       (IsWrite(proc[p].op.fn) /\ InTx(p) /\ IsWrite(proc[q].op.fn) /\ InTx(q)) => p = q
  /\ \A p \in Procs : (IsWrite(proc[p].op.fn) /\ InTx(p)) => (rwlock = p /\ wtx.open)
  /\ db.root = expect
  /\ \A p \in Procs :
       proc[p].snap.open => proc[p].snap.root = proc[p].want.root
  /\ \A p \in Procs :
       LET o == proc[p].op IN
       (o.fn = "Get" /\ proc[p].pc \in {"end", "done"} /\ ~Invalid(o))
         => proc[p].val = BucketGet(proc[p].want.root[o.bucket], o.key)

\* one writer is in its callback with a write made and not committed, the
\* other write call waits at db.Update
C4_Witness ==
  \E p, q \in Procs :
    /\ p # q
    /\ proc[p].pc = "cb" /\ IsWrite(proc[p].op.fn) /\ wtx.writes # NoWrites
    /\ proc[q].pc = "begin" /\ IsWrite(proc[q].op.fn)

\* C6: no deadlock on nesting. A write function called from the callback of a
\* write transaction on the same db never waits at db.Update for the writer
\* mutex that the transaction of its own goroutine holds.
C6_NoSelfDeadlock ==
  \A p \in Procs : ~(proc[p].pc = "nested" /\ rwlock = p)

\* a goroutine that waits in a nested write call stays there
C6_NestedIsStuck ==
  [][\A p \in Procs : proc[p].pc = "nested" => proc'[p].pc = "nested"]_vars

----------------------------------------------------------------------------
(* Reference notions for the properties, defined apart from the model *)

\* x sorts before y, byte by byte
RECURSIVE LexBefore(_, _)
LexBefore(x, y) ==
  IF y = <<>> THEN FALSE
  ELSE IF x = <<>> THEN TRUE
  ELSE IF Head(x) = Head(y) THEN LexBefore(Tail(x), Tail(y))
  ELSE Head(x) < Head(y)

\* the keys of S, each once, in ascending order
RECURSIVE Ascending(_)
Ascending(S) ==
  IF S = {} THEN <<>>
  ELSE LET m == CHOOSE k \in S : \A j \in S \ {k} : LexBefore(k, j)
       IN <<m>> \o Ascending(S \ {m})

StartsWith(k, prefix) ==
  Len(k) >= Len(prefix) /\ SubSeq(k, 1, Len(prefix)) = prefix

\* the pairs of bucket bkt whose key is in S, in ascending key order
Listing(bkt, S) ==
  LET ks == Ascending(S) IN [i \in 1..Len(ks) |-> <<ks[i], B(bkt[ks[i]])>>]

\* the (key, value) pairs the callback of p was invoked on, in order
ObsPairs(p) ==
  [i \in 1..Len(proc[p].obs) |-> <<proc[p].obs[i].k, proc[p].obs[i].v>>]

IsPrefixOf(a, b) ==
  Len(a) <= Len(b) /\ \A i \in 1..Len(a) : a[i] = b[i]

\* the pairs a scan of p has to visit in the content root
ScanListing(p, root) ==
  LET o == proc[p].op
      bkt == root[o.bucket]
  IN Listing(bkt, IF UsesPrefix(o.fn)
                  THEN {k \in DOMAIN bkt : StartsWith(k, o.prefix)}
                  ELSE DOMAIN bkt)

\* the call has a malformed argument: nil db, or an empty bucket, key,
\* value or prefix or a missing callback where the function takes one, or an
\* empty path for Open
Malformed(o) ==
  \/ o.fn = "Open" /\ o.path = <<>>
  \/ o.fn # "Open" /\ o.dbNil
  \/ o.fn # "Open" /\ UsesBucket(o.fn) /\ o.bucket = <<>>
  \/ o.fn # "Open" /\ UsesKey(o.fn) /\ o.key = <<>>
  \/ o.fn # "Open" /\ UsesValue(o.fn) /\ o.value = <<>>
  \/ o.fn # "Open" /\ UsesPrefix(o.fn) /\ o.prefix = <<>>
  \/ o.fn # "Open" /\ UsesFun(o.fn) /\ o.funNil

----------------------------------------------------------------------------
(* Properties, continued *)

\* C3: batch atomicity of PutWithValuePrefix. When fun returned an error on
\* the i-th key with the prefix, fun was invoked on the first i such keys in
\* ascending order and on nothing after, PutWithValuePrefix returns that error,
\* and the committed store is the one before the call: the replacements stored
\* for the first i-1 keys are gone.
C3_BatchAtomicity ==
  \A p \in {1} :
    LET o == proc[p].op
        obs == proc[p].obs
        i == Len(obs)
    IN (o.fn = "PutWithValuePrefix" /\ proc[p].pc = "done"
          /\ i > 0 /\ obs[i].e # ErrNone)
         => /\ proc[p].err = obs[i].e
            /\ \A j \in 1..(i - 1) : obs[j].e = ErrNone
            /\ IsPrefixOf(ObsPairs(p), ScanListing(p, proc[p].want.root))
            /\ db.root = proc[p].want.root
            /\ db.txid = proc[p].want.txid

\* fun handed back a replacement for the first key, which differs from the
\* value stored, and returned an error on the second
C3_Witness ==
  \E p \in {1} :
    /\ proc[p].op.fn = "PutWithValuePrefix" /\ proc[p].pc = "done"
    /\ Len(proc[p].obs) = 2
    /\ ~proc[p].obs[1].w.nil /\ proc[p].obs[1].w # proc[p].obs[1].v
    /\ proc[p].obs[2].e = ErrFun
    /\ proc[p].err = ErrFun

\* C5: snapshot isolation of readers. A read transaction that began at
\* generation N keeps reading the content of generation N while the store
\* moves on: every b.Get of the callback of GetWithDB / GetWithBucket returned
\* what generation N holds, and the pairs EachKV / EachKVPrefix handed to fun
\* are the leading pairs of the ascending listing of generation N.
C5_SnapshotIsolation ==
  \A p \in Procs :
    LET o == proc[p].op
        N == proc[p].want
    IN (o.fn \in {"GetWithDB", "GetWithBucket", "EachKV", "EachKVPrefix"}
          /\ proc[p].pc \in {"fn", "loop", "cb", "end", "done"})
         => /\ proc[p].snap.open => proc[p].snap.txid = N.txid
            /\ N.txid <= db.txid
            /\ IF o.fn \in {"EachKV", "EachKVPrefix"}
               THEN IsPrefixOf(ObsPairs(p), ScanListing(p, N.root))
               ELSE \A i \in 1..Len(proc[p].obs) :
                      proc[p].obs[i].v = BucketGet(N.root[proc[p].obs[i].b], proc[p].obs[i].k)

\* a callback has read the same key twice in a transaction of a generation
\* that is no longer the current one, in which the key has another value
C5_Witness ==
  \E p \in Procs :
    /\ proc[p].op.fn = "GetWithDB" /\ proc[p].pc = "cb"
    /\ proc[p].snap.open /\ proc[p].snap.txid < db.txid
    /\ Len(proc[p].obs) = 2
    /\ proc[p].obs[1].k = proc[p].obs[2].k
    /\ ~proc[p].obs[2].v.nil
    /\ proc[p].obs[2].v # BucketGet(db.root[proc[p].obs[2].b], proc[p].obs[2].k)

\* C7: read-modify-write of one key. PutWithValue on an existing bucket: with
\* the key absent it returns ErrKeyNotFound without invoking fun and commits
\* nothing; with the key present fun is invoked once on the stored value; when
\* fun returns (nil, nil) PutWithValue returns nil and the content is unchanged;
\* when fun returns (w, nil), w not nil, PutWithValue returns nil and the content
\* differs from the old one exactly in that the key holds w. A Get that follows
\* returns what the content holds.
C7_ReadModifyWrite ==
  \A p \in {1} :
    LET o == proc[p].op
        old == proc[p].want.root
        obs == proc[p].obs
    IN /\ (o.fn = "PutWithValue" /\ proc[p].pc = "done" /\ ~Invalid(o)
             /\ o.bucket \in DOMAIN old)
            => IF o.key \notin DOMAIN old[o.bucket]
               THEN /\ proc[p].err = ErrKeyNotFound
                    /\ obs = <<>>
                    /\ db.root = old /\ db.txid = proc[p].want.txid
               ELSE /\ Len(obs) = 1
                    /\ obs[1].v = B(old[o.bucket][o.key])
                    /\ (obs[1].e = ErrNone /\ obs[1].w.nil)
                         => (proc[p].err = ErrNone /\ db.root = old)
                    /\ (obs[1].e = ErrNone /\ ~obs[1].w.nil)
                         => /\ proc[p].err = ErrNone
                            /\ db.root = [old EXCEPT ![o.bucket][o.key] = obs[1].w.b]
       /\ (o.fn = "Get" /\ proc[p].pc = "done" /\ ~Invalid(o)
             /\ o.bucket \in DOMAIN db.root)
            => proc[p].val = BucketGet(db.root[o.bucket], o.key)

\* fun handed back a value that differs from the stored one, and it is stored
C7_Witness ==
  \E p \in {1} :
    /\ proc[p].op.fn = "PutWithValue" /\ proc[p].pc = "done"
    /\ Len(proc[p].obs) = 1
    /\ ~proc[p].obs[1].w.nil /\ proc[p].obs[1].w # proc[p].obs[1].v
    /\ proc[p].err = ErrNone
    /\ db.root[proc[p].op.bucket][proc[p].op.key] = proc[p].obs[1].w.b

\* C8: lookup errors. GetWithValue on a bucket that the store does not have
\* returns ErrBucketNotFound, on a bucket that lacks the key ErrKeyNotFound, and
\* fun is not invoked in either case; inside Get the same two errors arise and
\* Get returns nil.
C8_LookupErrors ==
  \A p \in {1} :
    LET o == proc[p].op
        root == proc[p].want.root
        miss == IF o.bucket \notin DOMAIN root THEN ErrBucketNotFound
                ELSE IF o.key \notin DOMAIN root[o.bucket] THEN ErrKeyNotFound
                ELSE ErrNone
    IN (o.fn \in {"GetWithValue", "Get"} /\ proc[p].pc = "done" /\ ~Invalid(o)
          /\ miss # ErrNone)
         => /\ proc[p].e = miss
            /\ proc[p].obs = <<>>
            /\ IF o.fn = "Get" THEN proc[p].val = NilB ELSE proc[p].err = miss

\* GetWithValue has returned ErrKeyNotFound on a bucket that holds other keys
C8_Witness ==
  \E p \in {1} :
    /\ proc[p].op.fn = "GetWithValue" /\ proc[p].pc = "done"
    /\ proc[p].err = ErrKeyNotFound
    /\ DOMAIN db.root[proc[p].op.bucket] # {}

\* C9 as claimed: every function called with a malformed argument returns
\* ErrInvalidArgument.
C9_AllReturnInvalidArgument ==
  \A p \in {1} :
    (proc[p].pc = "done" /\ Malformed(proc[p].op)) => proc[p].err = ErrInvalidArgument

\* C9 as amended: a call with a malformed argument returns at once, without
\* a transaction, without the writer mutex and with the store unchanged; it
\* returns ErrInvalidArgument (the counts with 0), except Get, which returns nil.
C9_FailFast ==
  [][\A p \in {1} :
       (proc[p].pc = "idle" /\ proc'[p].pc # "idle" /\ Malformed(proc'[p].op))
         => /\ proc'[p].pc = "done"
            /\ proc'[p].err = IF proc'[p].op.fn = "Get" THEN ErrNone ELSE ErrInvalidArgument
            /\ proc'[p].val = NilB /\ proc'[p].n = 0 /\ proc'[p].obs = <<>>
            /\ ~proc'[p].snap.open
            /\ UNCHANGED <<db, rwlock, wtx, expect>>
    ]_vars

\* Put was called on a store that holds data with a good db, bucket and key and
\* an empty value, and has returned ErrInvalidArgument
C9_Witness ==
  \E p \in {1} :
    /\ proc[p].pc = "done" /\ proc[p].op.fn = "Put"
    /\ ~proc[p].op.dbNil /\ proc[p].op.bucket # <<>> /\ proc[p].op.key # <<>>
    /\ proc[p].op.value = <<>>
    /\ proc[p].err = ErrInvalidArgument
    /\ db.txid > 0

\* C10: prefix scan. While EachKVPrefix runs, the pairs handed to fun are the
\* leading pairs of the ascending listing of the keys that have the prefix,
\* each with its stored value; when it returns nil they are that whole listing;
\* when it returns an error of fun, fun returned it on the last pair handed over.
C10_PrefixScan ==
  \A p \in {1} :
    LET o == proc[p].op
        obs == proc[p].obs
        all == ScanListing(p, proc[p].want.root)
    IN (o.fn = "EachKVPrefix" /\ proc[p].pc \in {"loop", "end", "done"})
         => /\ IsPrefixOf(ObsPairs(p), all)
            /\ \A i \in 1..(Len(obs) - 1) : obs[i].e = ErrNone
            /\ proc[p].pc = "done"
                 => IF proc[p].err = ErrNone
                    THEN ObsPairs(p) = all /\ \A i \in 1..Len(obs) : obs[i].e = ErrNone
                    ELSE Len(obs) > 0 /\ obs[Len(obs)].e = proc[p].err

\* prefix "ab" over the keys "a", "ab", "abc", "abd", "b": EachKVPrefix has
\* returned nil after visiting "ab", "abc", "abd" in that order
C10_Witness ==
  \E p \in {1} :
    /\ proc[p].op.fn = "EachKVPrefix" /\ proc[p].pc = "done" /\ proc[p].err = ErrNone
    /\ proc[p].op.prefix = <<1, 2>>
    /\ DOMAIN db.root[proc[p].op.bucket] = {<<1>>, <<1, 2>>, <<1, 2, 3>>, <<1, 2, 4>>, <<2>>}
    /\ [i \in 1..Len(proc[p].obs) |-> proc[p].obs[i].k] = <<(<<1, 2>>), <<1, 2, 3>>, <<1, 2, 4>>>>

\* C11: cardinality. CountKV on an existing bucket returns (n, nil) where n is
\* the number of distinct keys that the committed Put / PutWithValue /
\* PutWithValuePrefix calls (and the callbacks of PutWithBucket / PutWithDB)
\* wrote to the bucket up to the generation CountKV read: a write to a key
\* already stored and a write of a transaction rolled back do not count.
C11_Cardinality ==
  \A p \in {1} :
    LET o == proc[p].op
        N == proc[p].want
    IN (o.fn = "CountKV" /\ proc[p].pc = "done" /\ ~Invalid(o)
          /\ o.bucket \in DOMAIN N.root)
         => /\ proc[p].err = ErrNone
            /\ proc[p].n = Cardinality(DOMAIN N.root[o.bucket])
            /\ db.root = N.root

\* CountKV has returned 1 after two committed write transactions on the bucket
C11_Witness ==
  \E p \in {1} :
    /\ proc[p].op.fn = "CountKV" /\ proc[p].pc = "done" /\ proc[p].err = ErrNone
    /\ proc[p].n = 1
    /\ proc[p].want.txid = 2

\* the read functions that call back into the caller's code
ReadCallbackFns == {"GetWithDB", "GetWithBucket", "EachBucket", "GetWithValue", "EachKV", "EachKVPrefix"}

Named(o) == {o.names[i] : i \in {j \in 1..Len(o.names) : Len(o.names[j]) > 0}}

\* p's call of Open returns in this step
OpenReturns(p) ==
  proc[p].op.fn = "Open" /\ proc[p].pc # "done" /\ proc'[p].pc = "done"

\* C13 as claimed: when Open with a path returns nil, every name handed to it
\* is the name of a bucket of the store.
C13_EveryNameExists ==
  \A p \in Procs :
    LET o == proc[p].op IN
    (o.fn = "Open" /\ proc[p].pc = "done" /\ o.path # <<>> /\ proc[p].err = ErrNone
       /\ db.by = p /\ db.flock = "caller")
      => \A i \in 1..Len(o.names) : o.names[i] \in DOMAIN db.root

\* C13 as amended: when Open with a path returns nil, every non-empty name
\* handed to it is a bucket of the store, every bucket the store had is there
\* with its content, every other bucket is one of the names and is empty, and
\* the store moved on by exactly one write transaction when names were given,
\* by none else; when Open returns an error the store is as it was, so none of
\* the new buckets exists.
C13_OpenEnsuresBuckets ==
  [][\A p \in Procs :
       LET o == proc[p].op
           old == proc'[p].want
       IN (OpenReturns(p) /\ o.path # <<>>)
            => IF proc'[p].err = ErrNone
               THEN /\ \A b \in Named(o) : b \in DOMAIN db'.root
                    /\ \A b \in DOMAIN old.root :
                         b \in DOMAIN db'.root /\ db'.root[b] = old.root[b]
                    /\ \A b \in (DOMAIN db'.root) \ (DOMAIN old.root) :
                         b \in Named(o) /\ db'.root[b] = EmptyBucket
                    /\ db'.txid = old.txid + (IF Len(o.names) > 0 THEN 1 ELSE 0)
               ELSE /\ db'.root = db.root /\ db'.txid = db.txid
                    /\ db'.root = expect
    ]_vars

\* Open was handed bucket <<1>>, which held a pair, and the new name <<2>>; it
\* has returned nil, bucket <<1>> holds its pair and bucket <<2>> is empty
C13_Witness ==
  \E p \in Procs :
    /\ proc[p].op.fn = "Open" /\ proc[p].pc = "done" /\ proc[p].err = ErrNone
    /\ proc[p].op.names = <<(<<1>>), <<2>>>>
    /\ <<1>> \in DOMAIN proc[p].want.root
    /\ <<2>> \notin DOMAIN proc[p].want.root
    /\ db.root = [b \in {<<1>>, <<2>>} |-> IF b = <<1>> THEN proc[p].want.root[b] ELSE EmptyBucket]
    /\ DOMAIN db.root[<<1>>] # {}

\* C14: full scan. While EachKV runs, the pairs handed to fun are the leading
\* pairs of the listing of all keys of the bucket, each once, in ascending
\* order, each with its stored value, and fun returned nil on all but the last;
\* when EachKV returns nil they are the whole listing; when fun returned an
\* error, that pair is the last one handed over and EachKV returns that error.
C14_FullScan ==
  \A p \in {1} :
    LET o == proc[p].op
        obs == proc[p].obs
        all == Listing(proc[p].want.root[o.bucket], DOMAIN proc[p].want.root[o.bucket])
    IN (o.fn = "EachKV" /\ proc[p].pc \in {"loop", "end", "done"})
         => /\ IsPrefixOf(ObsPairs(p), all)
            /\ \A i \in 1..(Len(obs) - 1) : obs[i].e = ErrNone
            /\ (Len(obs) > 0 /\ obs[Len(obs)].e # ErrNone) => proc[p].pc \in {"end", "done"}
            /\ proc[p].pc = "done"
                 => IF Len(obs) > 0 /\ obs[Len(obs)].e # ErrNone
                    THEN proc[p].err = obs[Len(obs)].e
                    ELSE proc[p].err = ErrNone /\ ObsPairs(p) = all

\* on a bucket of five keys fun returned an error on the second key; EachKV
\* has returned it
C14_Witness ==
  \E p \in {1} :
    /\ proc[p].op.fn = "EachKV" /\ proc[p].pc = "done" /\ proc[p].err = ErrFun
    /\ Cardinality(DOMAIN db.root[proc[p].op.bucket]) = 5
    /\ Len(proc[p].obs) = 2
    /\ proc[p].obs[1].k = <<1>> /\ proc[p].obs[2].k = <<1, 2>>

\* the call of p has returned from an existing bucket in which nothing is to
\* be visited: the bucket is empty or, for a function that takes a prefix, no
\* key has the prefix
NothingToVisit(p) ==
  LET o == proc[p].op
      root == proc[p].want.root
  IN /\ proc[p].pc = "done" /\ ~Invalid(o)
     /\ o.fn \in {"EachKV", "EachKVPrefix", "PutWithValuePrefix", "CountKV", "CountKVPrefix"}
     /\ o.bucket \in DOMAIN root
     /\ IF UsesPrefix(o.fn)
        THEN \A k \in DOMAIN root[o.bucket] : ~StartsWith(k, o.prefix)
        ELSE DOMAIN root[o.bucket] = {}

\* CountKVPrefix of p and EachKVPrefix of q have returned from the same
\* content of the same bucket with the same prefix
SameScan(p, q) ==
  /\ proc[p].op.fn = "CountKVPrefix" /\ proc[p].pc = "done"
  /\ proc[q].op.fn = "EachKVPrefix" /\ proc[q].pc = "done"
  /\ proc[p].op.bucket = proc[q].op.bucket /\ proc[p].op.prefix = proc[q].op.prefix
  /\ proc[p].want.root = proc[q].want.root

\* C15 as claimed: with nothing to visit the callback is not invoked and the
\* result is nil, the count (0, nil); and CountKVPrefix equals the number of
\* invocations that EachKVPrefix makes on the same content and prefix, whatever
\* fun does.
C15_CountEqualsInvocations ==
  /\ \A p \in Procs :
       NothingToVisit(p) => (proc[p].err = ErrNone /\ proc[p].obs = <<>> /\ proc[p].n = 0)
  /\ \A p, q \in Procs :
       SameScan(p, q) => (proc[p].err = ErrNone /\ proc[p].n = Len(proc[q].obs))

\* C15 as amended: the same, the count being that of the invocations of an
\* EachKVPrefix on which fun returned no error; one that fun ended with an
\* error made at most that many.
C15_EmptyIsNoError ==
  /\ \A p \in Procs :
       NothingToVisit(p) => (proc[p].err = ErrNone /\ proc[p].obs = <<>> /\ proc[p].n = 0)
  /\ \A p, q \in Procs :
       SameScan(p, q)
         => /\ proc[p].err = ErrNone
            /\ IF proc[q].err = ErrNone
               THEN proc[p].n = Len(proc[q].obs)
               ELSE proc[p].n >= Len(proc[q].obs)

\* CountKVPrefix has returned (0, nil) and EachKVPrefix nil without a call of
\* fun, for a prefix that no key of a bucket of three keys has
C15_Witness ==
  \E p, q \in Procs :
    /\ SameScan(p, q) /\ NothingToVisit(p) /\ NothingToVisit(q)
    /\ Cardinality(DOMAIN proc[p].want.root[proc[p].op.bucket]) = 3
    /\ proc[p].n = 0 /\ proc[p].err = ErrNone
    /\ proc[q].obs = <<>> /\ proc[q].err = ErrNone

\* C16: Get signals no error. It returns nil exactly when an argument is
\* malformed, the store has no such bucket, or the bucket has no such key (in
\* the content of the generation it read); else it returns a slice that is not
\* nil and equals the stored value, also when that value has length zero.
C16_GetNilOrValue ==
  \A p \in {1} :
    LET o == proc[p].op
        root == proc[p].want.root
    IN (o.fn = "Get" /\ proc[p].pc = "done")
         => /\ proc[p].err = ErrNone
            /\ IF Malformed(o) THEN proc[p].val = NilB
               ELSE IF o.bucket \notin DOMAIN root THEN proc[p].val = NilB
               ELSE IF o.key \notin DOMAIN root[o.bucket] THEN proc[p].val = NilB
               ELSE proc[p].val = B(root[o.bucket][o.key])

\* Get has returned the value of a key that holds a value of length zero
C16_Witness ==
  \E p \in {1} :
    /\ proc[p].op.fn = "Get" /\ proc[p].pc = "done"
    /\ proc[p].val = B(<<>>)
    /\ db.root[proc[p].op.bucket][proc[p].op.key] = <<>>

\* C17: PutWithValuePrefix over the keys under the prefix. While it runs, fun
\* has been invoked on the leading keys of the ascending listing of the keys
\* that had the prefix when the call began, each once, each with the value it
\* then had, also after the loop stored replacements; when no invocation
\* returned an error and the call has returned, it returned nil, fun was invoked
\* on that whole listing, the store is one generation on, it has the same keys,
\* each key on which fun handed back a replacement holds that replacement, and
\* every other key, with or without the prefix, holds its old value.
C17_PrefixUpdate ==
  \A p \in {1} :
    LET o == proc[p].op
        obs == proc[p].obs
        old == proc[p].want.root
        new == db.root
    IN (o.fn = "PutWithValuePrefix" /\ ~Invalid(o) /\ proc[p].pc \in {"loop", "end", "done"})
         => /\ IsPrefixOf(ObsPairs(p), ScanListing(p, old))
            /\ (proc[p].pc = "done" /\ \A i \in 1..Len(obs) : obs[i].e = ErrNone)
                 => /\ proc[p].err = ErrNone
                    /\ ObsPairs(p) = ScanListing(p, old)
                    /\ db.txid = proc[p].want.txid + 1
                    /\ DOMAIN new = DOMAIN old
                    /\ \A b \in DOMAIN old : DOMAIN new[b] = DOMAIN old[b]
                    /\ \A b \in DOMAIN old : \A k \in DOMAIN old[b] :
                         new[b][k] =
                           IF \E i \in 1..Len(obs) : b = o.bucket /\ obs[i].k = k /\ ~obs[i].w.nil
                           THEN LET i == CHOOSE i \in 1..Len(obs) : obs[i].k = k IN obs[i].w.b
                           ELSE old[b][k]

\* over the keys "a", "ab", "b" with prefix "a": fun handed back a replacement
\* for "a" and nil for "ab", the call has returned nil, "a" holds the
\* replacement and "b" its old value
C17_Witness ==
  \E p \in {1} :
    /\ proc[p].op.fn = "PutWithValuePrefix" /\ proc[p].pc = "done" /\ proc[p].err = ErrNone
    /\ proc[p].op.prefix = <<1>>
    /\ DOMAIN db.root[proc[p].op.bucket] = {<<1>>, <<1, 2>>, <<2>>}
    /\ Len(proc[p].obs) = 2
    /\ proc[p].obs[1].k = <<1>> /\ ~proc[p].obs[1].w.nil /\ proc[p].obs[1].w # proc[p].obs[1].v
    /\ proc[p].obs[2].k = <<1, 2>> /\ proc[p].obs[2].w.nil
    /\ db.root[proc[p].op.bucket][<<1>>] = proc[p].obs[1].w.b
    /\ db.root[proc[p].op.bucket][<<2>>] = proc[p].want.root[proc[p].op.bucket][<<2>>]

\* C18: no empty key or value in the store. Every key and every value of every
\* bucket of the committed content has a length above zero.
C18_NothingEmptyStored ==
  \A b \in DOMAIN db.root : \A k \in DOMAIN db.root[b] :
    Len(k) > 0 /\ Len(db.root[b][k]) > 0

\* the keys alone: no stored key is empty, whatever the callbacks do
C18_NoEmptyKey ==
  \A b \in DOMAIN db.root : \A k \in DOMAIN db.root[b] : Len(k) > 0

\* C19: the bucket namespace is fixed. No step of Get, Put, GetWithValue,
\* PutWithValue, PutWithValuePrefix, EachKV, EachKVPrefix, CountKV or
\* CountKVPrefix (nor of the other functions, with callbacks that get and put)
\* adds a bucket to the store or takes one away; and Put, PutWithValue and
\* PutWithValuePrefix on a bucket that the store lacks return
\* ErrBucketNotFound without a call of fun and leave the store as it was.
C19_BucketsFixed ==
  [][/\ DOMAIN db'.root = DOMAIN db.root
     /\ \A p \in {1} :
          LET o == proc[p].op IN
          (o.fn \in {"Put", "PutWithValue", "PutWithValuePrefix"} /\ ~Invalid(o)
             /\ proc[p].pc # "done" /\ proc'[p].pc = "done"
             /\ o.bucket \notin DOMAIN db.root)
            => /\ proc'[p].err = ErrBucketNotFound
               /\ proc'[p].obs = <<>>
               /\ db' = db
    ]_vars

\* Put on bucket <<2>>, which the store lacks, has returned ErrBucketNotFound;
\* the store, which holds data, has bucket <<1>> alone
C19_Witness ==
  \E p \in {1} :
    /\ proc[p].op.fn = "Put" /\ proc[p].pc = "done"
    /\ proc[p].op.bucket = <<2>>
    /\ proc[p].err = ErrBucketNotFound
    /\ DOMAIN db.root = {<<1>>}
    /\ DOMAIN db.root[<<1>>] # {}

\* C20: a failed Open holds nothing. When Open has returned an error, the
\* handle that this call opened is not open any more: it does not hold the
\* lock on the file.
C20_FailedOpenHoldsNothing ==
  \A p \in Procs :
    (proc[p].op.fn = "Open" /\ proc[p].pc = "done" /\ proc[p].err # ErrNone)
      => ~(db.by = p /\ db.flock \in {"opening", "lost"})

\* an Open that fails on its path or in bbolt.Open leaves the file and its
\* lock as they were
C20_EarlyFailureHoldsNothing ==
  [][\A p \in Procs :
       (OpenReturns(p) /\ proc'[p].err \in {ErrInvalidArgument, ErrOpen}) => db' = db
    ]_vars

====
